---- MODULE Spec2Model ----
(***************************************************************************)
(* Model of rtmap.py: the range-test map generator.                        *)
(*                                                                         *)
(* A run starts at one of the program's three entry points: the script's   *)
(* __main__ block, a direct call of create_map_with_layers, or a direct    *)
(* call of create_point_layer.  The file system (which CSV files exist,    *)
(* whether they can be read, and their rows) is chosen by Init.            *)
(*                                                                         *)
(* Cell values.  A CSV cell is read by pandas as a number, as NaN (empty   *)
(* cell) or as text.  Latitudes and longitudes are whole degrees; the SNR  *)
(* is kept in quarter dB (Quarter(15) is 15 dB), so that the fractional    *)
(* SNR values the radios report are covered.                               *)
(*                                                                         *)
(* folium is modelled as a sink that stores what it is handed; its own     *)
(* validation of coordinates is not modelled (it can only remove           *)
(* behaviours).                                                            *)
(***************************************************************************)
EXTENDS Integers, Sequences, FiniteSets, TLC

MaxSources == 2
MaxRows == 2

----------------------------------------------------------------------------
(* Cells and rows *)

Num(n) == [t |-> "num", v |-> n]
NaN == [t |-> "nan", v |-> 0]
Str == [t |-> "str", v |-> 0]

Quarter(db) == 4 * db

Row(p, la, lo, s, n, e) ==
  [payload |-> p, lat |-> la, long |-> lo, snr |-> s, sender |-> n, elev |-> e]

Digits == {"0", "1", "2", "3", "4", "5", "6", "7", "8", "9"}

----------------------------------------------------------------------------
(* pandas *)

(* read_csv gives a text column the dtype object, and a column whose cells *)
(* are all numbers or empty a numeric dtype.  A frame without rows has     *)
(* object columns.                                                         *)
IsNumericText(s) == Len(s) > 0 /\ \A k \in 1..Len(s) : s[k] \in Digits

PayloadIsObject(df) ==
  \/ Len(df) = 0
  \/ \E k \in 1..Len(df) : Len(df[k].payload) > 0 /\ ~IsNumericText(df[k].payload)

ColIsObject(df, col) ==
  \/ Len(df) = 0
  \/ \E k \in 1..Len(df) : df[k][col].t = "str"

(* Series.str.contains(r'seq \d+', na=False): a regular-expression search, *)
(* anywhere in the text; an empty cell (NaN) gives False.                  *)
StrContainsSeq(s) ==
  \E k \in 1..Len(s) :
    /\ k + 4 <= Len(s)
    /\ s[k] = "s" /\ s[k + 1] = "e" /\ s[k + 2] = "q" /\ s[k + 3] = " "
    /\ s[k + 4] \in Digits

NotNa(c) == c.t # "nan"

(* df[[five columns]].dropna() keeps the rows with no NaN in the five.     *)
DropNaKeeps(r) ==
  NotNa(r.lat) /\ NotNa(r.long) /\ NotNa(r.snr) /\ NotNa(r.sender) /\ NotNa(r.elev)

(* isinstance(x, (int, float)) on a cell of the frame *)
IsInstanceNumber(c) == c.t = "num"

(* Series.between(lo, hi), both ends included *)
Between(c, lo, hi) == lo <= c.v /\ c.v <= hi

LatLongKeeps(r) ==
  /\ IsInstanceNumber(r.lat)
  /\ IsInstanceNumber(r.long)
  /\ Between(r.lat, -90, 90)
  /\ Between(r.long, -180, 180)

(* Lines 16-21 of create_point_layer on the frame df: the exception they   *)
(* raise, or "none".  .str on a non-text column raises AttributeError;     *)
(* comparing a text column with a number (.between) raises TypeError when  *)
(* the column still holds a row.                                           *)
AfterPayload(df) == SelectSeq(df, LAMBDA r : StrContainsSeq(r.payload))
AfterDropNa(df) == SelectSeq(AfterPayload(df), DropNaKeeps)

FilterError(df) ==
  IF ~PayloadIsObject(df) THEN "AttributeError"
  ELSE IF /\ Len(AfterDropNa(df)) > 0
          /\ (ColIsObject(df, "lat") \/ ColIsObject(df, "long"))
       THEN "TypeError"
       ELSE "none"

FilterRows(df) == SelectSeq(AfterDropNa(df), LatLongKeeps)

(* Series.mean() skips NaN; the mean is kept as the pair sum, count (count *)
(* 0 is NaN).  On a text column mean() raises TypeError.                   *)
RECURSIVE SumCol(_, _)
SumCol(df, col) ==
  IF Len(df) = 0 THEN 0
  ELSE (IF df[1][col].t = "num" THEN df[1][col].v ELSE 0) + SumCol(Tail(df), col)

CountCol(df, col) == Len(SelectSeq(df, LAMBDA r : r[col].t = "num"))

Mean(df, col) == [sum |-> SumCol(df, col), n |-> CountCol(df, col)]

HasText(df, col) == \E k \in 1..Len(df) : df[k][col].t = "str"

(* pd.concat(df_list, ignore_index=True) *)
RECURSIVE Concat(_)
Concat(dfs) == IF Len(dfs) = 0 THEN <<>> ELSE dfs[1] \o Concat(Tail(dfs))

(* Mutant of Basename: the directory instead of the file name *)
Basename_Dir(path) == path[1]

(* os.path.basename of a path kept as its components *)
Basename(path) == path[Len(path)]

----------------------------------------------------------------------------
(* matplotlib: LinearSegmentedColormap.from_list("", ["red", "yellow",     *)
(* "green"]) has 256 entries; entry k lies between red (k = 0), yellow     *)
(* (k = 127.5) and green = (0, 128, 0) (k = 255).  rgb2hex rounds each     *)
(* channel to 0..255; a colour is kept as its <<R, G, B>>.                 *)

LutRed(k) == IF 2 * k <= 255 THEN 255 ELSE 510 - 2 * k

LutGreen(k) ==
  IF 2 * k <= 255 THEN 2 * k
  ELSE 255 - ((2 * (2 * k - 255) * 127 + 255) \div 510)

Lut(k) == <<LutRed(k), LutGreen(k), 0>>

(* cmap(t) for the float t = num / den (den > 0): index floor(256 t),      *)
(* t = 1 is the last entry, below 0 the first entry, above 1 the last.     *)
CmapIndex(num, den) ==
  IF num < 0 THEN 0
  ELSE IF num >= den THEN 255
  ELSE (256 * num) \div den

Grey == <<128, 128, 128>>

(* Lines 35 and 40-43: the colour of a marker, snr in quarter dB.          *)
NormalizedIndex(snr) ==
  CmapIndex(snr - Quarter(-21), Quarter(12) - Quarter(-21))

(* Mutant of MapColor: -25 itself is not grey *)
MapColor_StrictLow(snr) ==
  IF snr > Quarter(15) \/ snr < Quarter(-25)
  THEN Grey
  ELSE Lut(NormalizedIndex(snr))

MapColor(snr) ==
  IF snr > Quarter(15) \/ snr <= Quarter(-25)
  THEN Grey
  ELSE Lut(NormalizedIndex(snr))

(* Lines 45-60: the CircleMarker of one row *)
Marker(name, r) ==
  [location |-> <<r.lat, r.long>>,
   color |-> MapColor(r.snr.v),
   popup |-> <<name, r.snr, r.elev, r.lat, r.long>>]

(* Mutant of Markers: the rows taken last to first *)
Markers_Reversed(name, rows) ==
  [k \in 1..Len(rows) |-> Marker(name, rows[Len(rows) + 1 - k])]

(* Lines 38-60: one marker per row of the filtered frame, in its order *)
Markers(name, rows) == [k \in 1..Len(rows) |-> Marker(name, rows[k])]

----------------------------------------------------------------------------
(* Inputs *)

SeqPayload == <<"s", "e", "q", " ", "1">>

(* A row every filter accepts *)
GoodRow == Row(SeqPayload, Num(10), Num(20), Num(0), Str, Num(5))

(* The rows of the files given to the whole pipeline: an accepted row and *)
(* a row whose payload is other text.                                      *)
OtherTextRow == Row(<<"h", "i">>, Num(50), Num(60), Num(Quarter(3)), Str, Num(7))

PipelineRows == {GoodRow, OtherTextRow}

(* The rows of the file given to create_point_layer alone: GoodRow with    *)
(* one column changed.                                                     *)
Payloads ==
  { <<"s", "e", "q", " ", "1", "2">>, <<"x", "s", "e", "q", " ", "7", "y">>,
    <<"s", "e", "q", " ">>, <<"s", "e", "q", "1">>, <<"S", "e", "q", " ", "1">>,
    <<"1", "2">>, <<>> }

Latitudes == {NaN, Str, Num(-91), Num(-90), Num(90), Num(91)}

Longitudes == {NaN, Str, Num(-181), Num(-180), Num(180), Num(181)}

Snrs ==
  {NaN, Str} \cup
  { Num(q) : q \in { Quarter(-25) - 1, Quarter(-25), Quarter(-25) + 1, Quarter(-21),
                     Quarter(-5) + 2, Quarter(12), Quarter(15), Quarter(15) + 1,
                     Quarter(16) } }

LayerRows ==
  {GoodRow}
    \cup { [GoodRow EXCEPT !.payload = p] : p \in Payloads }
    \cup { [GoodRow EXCEPT !.lat = c] : c \in Latitudes }
    \cup { [GoodRow EXCEPT !.long = c] : c \in Longitudes }
    \cup { [GoodRow EXCEPT !.snr = c] : c \in Snrs }
    \cup { [GoodRow EXCEPT !.sender = NaN], [GoodRow EXCEPT !.elev = NaN],
           [GoodRow EXCEPT !.elev = Str] }

SeqsUpTo(S, n) == UNION { [1..k -> S] : k \in 0..n }

ScriptDir == "script_dir"
DirNames == <<"d1", "d2", "d3", "d4">>
FileNames == <<"a.csv", "b.csv", "c.csv", "d.csv">>

File(path, readable, rows) == [path |-> path, readable |-> readable, rows |-> rows]

(* What one file can hold: nothing readable, or up to MaxRows rows *)
Contents(rowset) ==
  {[readable |-> FALSE, rows |-> <<>>]}
    \cup { [readable |-> TRUE, rows |-> rs] : rs \in SeqsUpTo(rowset, MaxRows) }

PipelineContents == Contents(PipelineRows)
LayerContents == Contents(LayerRows)

(* glob(script_dir/*.csv): files of one directory, with different names *)
GlobList(c) ==
  [k \in DOMAIN c |-> File(<<ScriptDir, FileNames[k]>>, c[k].readable, c[k].rows)]

(* A caller's list: different files that share a base name *)
CallList(c) ==
  [k \in DOMAIN c |-> File(<<DirNames[k], FileNames[1]>>, c[k].readable, c[k].rows)]

(* The case of the partial-failure test: a file with an accepted row, a    *)
(* file that cannot be read, a file whose only row is filtered out          *)
PartialFailureList ==
  << File(<<ScriptDir, FileNames[1]>>, TRUE, <<GoodRow>>),
     File(<<ScriptDir, FileNames[2]>>, FALSE, <<>>),
     File(<<ScriptDir, FileNames[3]>>, TRUE, <<OtherTextRow>>) >>

(* The one file handed to create_point_layer *)
LayerList(c) == <<File(<<ScriptDir, FileNames[1]>>, c.readable, c.rows)>>

----------------------------------------------------------------------------
(* State *)

VARIABLES
  entry,        \* the entry point of the run: "main", "map" or "layer"
  csv_files,    \* the list of sources
  pc,           \* the statement the run is at
  i,            \* index of the source of the running for loop
  m,            \* the folium map: its location and its children
  df_list,      \* frames read by the merge loop
  df,           \* create_point_layer: the frame read
  df_filtered,  \* create_point_layer: the filtered frame
  ret,          \* create_point_layer: what it returned
  out,          \* lines printed
  exc,          \* the uncaught exception and the statement that raised it
  exit_code,    \* exit status of the script
  saved,        \* the maps written by m.save
  log           \* the operations done so far, in order

vars == <<entry, csv_files, pc, i, m, df_list, df, df_filtered, ret, out, exc,
          exit_code, saved, log>>

NoMean == [sum |-> 0, n |-> 0]
NoMap == [location |-> <<NoMean, NoMean>>, children |-> <<>>]
NoRet == [kind |-> "unset", name |-> "", markers |-> <<>>]

NoExc == [type |-> "none", at |-> "none"]

Event(op, k) == <<op, k>>

Start(e, files, at) ==
  /\ entry = e
  /\ csv_files = files
  /\ pc = at
  /\ i = 1
  /\ m = NoMap
  /\ df_list = <<>>
  /\ df = <<>>
  /\ df_filtered = <<>>
  /\ ret = NoRet
  /\ out = <<>>
  /\ exc = NoExc
  /\ exit_code = 0
  /\ saved = <<>>
  /\ log = <<>>

Init ==
  \/ \E n \in 0..MaxSources : \E c \in [1..n -> PipelineContents] :
       Start("main", GlobList(c), "main")
  \/ \E n \in 0..MaxSources : \E c \in [1..n -> PipelineContents] :
       Start("map", CallList(c), "map_center")
  \/ Start("main", PartialFailureList, "main")
  \/ \E c \in LayerContents : Start("layer", LayerList(c), "cpl_read")

(* An uncaught exception ends the run; the interpreter exits with 1 *)
Raise(e, at) ==
  /\ pc' = "raised"
  /\ exc' = [type |-> e, at |-> at]
  /\ exit_code' = 1

----------------------------------------------------------------------------
(* __main__, lines 157-167 *)

(* Lines 161-163: no CSV file found *)
MainNoCsv ==
  /\ pc = "main"
  /\ Len(csv_files) = 0
  /\ out' = Append(out, "No CSV files found in the directory. Exiting.")
  /\ exit_code' = 1
  /\ pc' = "exit"
  /\ log' = Append(log, Event("exit", 0))
  /\ UNCHANGED <<entry, csv_files, i, m, df_list, df, df_filtered, ret, exc, saved>>

(* Mutant of MainCall: the call is made without the check of line 161 *)
MainCall_Unguarded ==
  /\ pc = "main"
  /\ pc' = "map_center"
  /\ UNCHANGED <<entry, csv_files, i, m, df_list, df, df_filtered, ret, out, exc,
                 exit_code, saved, log>>

(* Lines 165-166: the call of create_map_with_layers *)
MainCall ==
  /\ pc = "main"
  /\ Len(csv_files) > 0
  /\ pc' = "map_center"
  /\ UNCHANGED <<entry, csv_files, i, m, df_list, df, df_filtered, ret, out, exc,
                 exit_code, saved, log>>

(* Line 167: the closing message *)
MainPrint ==
  /\ pc = "main_print"
  /\ out' = Append(out, "Map with layers has been generated")
  /\ pc' = "exit"
  /\ log' = Append(log, Event("exit", 0))
  /\ UNCHANGED <<entry, csv_files, i, m, df_list, df, df_filtered, ret, exc,
                 exit_code, saved>>

----------------------------------------------------------------------------
(* create_map_with_layers, lines 64-154 *)

(* Lines 66-67: the exception of csv_files[0], read_csv or mean, if any *)
CenterError ==
  IF Len(csv_files) = 0 THEN "IndexError"
  ELSE IF ~csv_files[1].readable THEN "ReadError"
  ELSE IF HasText(csv_files[1].rows, "lat") \/ HasText(csv_files[1].rows, "long")
       THEN "TypeError"
       ELSE "none"

MapCenterRaise ==
  /\ pc = "map_center"
  /\ CenterError # "none"
  /\ Raise(CenterError, "center")
  /\ log' = Append(log, Event("raise", 1))
  /\ UNCHANGED <<entry, csv_files, i, m, df_list, df, df_filtered, ret, out, saved>>

(* Lines 66-68: the map, centred on the means of the first file's columns *)
MapCenter ==
  /\ pc = "map_center"
  /\ CenterError = "none"
  /\ LET initial_df == csv_files[1].rows
     IN m' = [location |-> <<Mean(initial_df, "lat"), Mean(initial_df, "long")>>,
              children |-> <<>>]
  /\ df_list' = <<>>
  /\ i' = 1
  /\ pc' = "merge"
  /\ log' = Append(log, Event("center", 1))
  /\ UNCHANGED <<entry, csv_files, df, df_filtered, ret, out, exc, exit_code, saved>>

(* Lines 72-74: one turn of the merge loop *)
MergeRead ==
  /\ pc = "merge"
  /\ i <= Len(csv_files)
  /\ csv_files[i].readable
  /\ df_list' = Append(df_list, csv_files[i].rows)
  /\ i' = i + 1
  /\ log' = Append(log, Event("merge_read", i))
  /\ UNCHANGED <<entry, csv_files, pc, m, df, df_filtered, ret, out, exc, exit_code,
                 saved>>

MergeReadRaise ==
  /\ pc = "merge"
  /\ i <= Len(csv_files)
  /\ ~csv_files[i].readable
  /\ Raise("ReadError", "merge")
  /\ log' = Append(log, Event("raise", i))
  /\ UNCHANGED <<entry, csv_files, i, m, df_list, df, df_filtered, ret, out, saved>>

(* Line 78: one heat sample per row of the merged frame *)
HeatData(merged_df) ==
  [k \in 1..Len(merged_df) |->
     <<merged_df[k].lat, merged_df[k].long, merged_df[k].snr>>]

(* Lines 75-83: the heat map layer, made of every row read *)
Heat ==
  /\ pc = "merge"
  /\ i > Len(csv_files)
  /\ LET merged_df == Concat(df_list)
     IN m' = [m EXCEPT !.children =
                Append(@, [kind |-> "heatmap", name |-> "Measurement Heatmap",
                           data |-> HeatData(merged_df)])]
  /\ pc' = "controls"
  /\ log' = Append(log, Event("heat", 0))
  /\ UNCHANGED <<entry, csv_files, i, df_list, df, df_filtered, ret, out, exc,
                 exit_code, saved>>

Plain(kind, name) == [kind |-> kind, name |-> name, data |-> <<>>]

(* Lines 85-145: the controls and the tile layers *)
Controls ==
  << Plain("control", "MeasureControl"), Plain("control", "Fullscreen"),
     Plain("control", "MousePosition"), Plain("tiles", "Esri WorldImagery"),
     Plain("tiles", "OpenTopoMap"), Plain("tiles", "CartoDB Positron"),
     Plain("tiles", "CartoDB Positron (No Labels)"),
     Plain("tiles", "CartoDB Dark Matter (No Labels)"),
     Plain("tiles", "CartoDB Dark Matter") >>

AddControls ==
  /\ pc = "controls"
  /\ m' = [m EXCEPT !.children = @ \o Controls]
  /\ i' = 1
  /\ pc' = "layers"
  /\ UNCHANGED <<entry, csv_files, df_list, df, df_filtered, ret, out, exc, exit_code,
                 saved, log>>

(* Line 149: the call of create_point_layer for the next file *)
CallPointLayer ==
  /\ pc = "layers"
  /\ i <= Len(csv_files)
  /\ pc' = "cpl_read"
  /\ df' = <<>>
  /\ df_filtered' = <<>>
  /\ ret' = NoRet
  /\ UNCHANGED <<entry, csv_files, i, m, df_list, out, exc, exit_code, saved, log>>

(* Lines 150-151: the layer, if any, is added to the map *)
AddLayer ==
  /\ pc = "cpl_return"
  /\ entry # "layer"
  /\ m' = IF ret.kind = "layer"
          THEN [m EXCEPT !.children =
                  Append(@, [kind |-> "points", name |-> ret.name,
                             data |-> ret.markers])]
          ELSE m
  /\ i' = i + 1
  /\ pc' = "layers"
  /\ log' = Append(log, Event("layer_end", i))
  /\ UNCHANGED <<entry, csv_files, df_list, df, df_filtered, ret, out, exc, exit_code,
                 saved>>

(* Mutant of Save: the map is written when the last file is still to do *)
Save_Early ==
  /\ pc = "layers"
  /\ i >= Len(csv_files)
  /\ m' = [m EXCEPT !.children = Append(@, Plain("control", "LayerControl"))]
  /\ saved' = Append(saved, m')
  /\ pc' = IF entry = "main" THEN "main_print" ELSE "done"
  /\ log' = Append(log, Event("save", 0))
  /\ UNCHANGED <<entry, csv_files, i, df_list, df, df_filtered, ret, out, exc,
                 exit_code>>

(* Lines 153-154: the layer control, and the map is written *)
Save ==
  /\ pc = "layers"
  /\ i > Len(csv_files)
  /\ m' = [m EXCEPT !.children = Append(@, Plain("control", "LayerControl"))]
  /\ saved' = Append(saved, m')
  /\ pc' = IF entry = "main" THEN "main_print" ELSE "done"
  /\ log' = Append(log, Event("save", 0))
  /\ UNCHANGED <<entry, csv_files, i, df_list, df, df_filtered, ret, out, exc,
                 exit_code>>

----------------------------------------------------------------------------
(* create_point_layer, lines 11-62 *)

(* Line 13 *)
CplRead ==
  /\ pc = "cpl_read"
  /\ csv_files[i].readable
  /\ df' = csv_files[i].rows
  /\ pc' = "cpl_filter"
  /\ log' = Append(log, Event("layer_read", i))
  /\ UNCHANGED <<entry, csv_files, i, m, df_list, df_filtered, ret, out, exc,
                 exit_code, saved>>

CplReadRaise ==
  /\ pc = "cpl_read"
  /\ ~csv_files[i].readable
  /\ Raise("ReadError", "read")
  /\ log' = Append(log, Event("raise", i))
  /\ UNCHANGED <<entry, csv_files, i, m, df_list, df, df_filtered, ret, out, saved>>

(* Lines 16-21: row filtering *)
CplFilter ==
  /\ pc = "cpl_filter"
  /\ FilterError(df) = "none"
  /\ df_filtered' = FilterRows(df)
  /\ pc' = "cpl_check"
  /\ log' = Append(log, Event("layer_filter", i))
  /\ UNCHANGED <<entry, csv_files, i, m, df_list, df, ret, out, exc, exit_code, saved>>

CplFilterRaise ==
  /\ pc = "cpl_filter"
  /\ FilterError(df) # "none"
  /\ Raise(FilterError(df), "filter")
  /\ log' = Append(log, Event("raise", i))
  /\ UNCHANGED <<entry, csv_files, i, m, df_list, df, df_filtered, ret, out, saved>>

(* Lines 24-26: nothing left, no layer *)
CplNoData ==
  /\ pc = "cpl_check"
  /\ Len(df_filtered) = 0
  /\ out' = Append(out, "No valid data found")
  /\ ret' = [kind |-> "None", name |-> "", markers |-> <<>>]
  /\ pc' = "cpl_return"
  /\ UNCHANGED <<entry, csv_files, i, m, df_list, df, df_filtered, exc, exit_code,
                 saved, log>>

(* Line 35: x - (-21) on a text column raises TypeError *)
CplBuildRaise ==
  /\ pc = "cpl_check"
  /\ Len(df_filtered) > 0
  /\ HasText(df, "snr")
  /\ Raise("TypeError", "normalize")
  /\ log' = Append(log, Event("raise", i))
  /\ UNCHANGED <<entry, csv_files, i, m, df_list, df, df_filtered, ret, out, saved>>

(* Lines 29-62: the layer, named after the file, one marker per row *)
CplBuild ==
  /\ pc = "cpl_check"
  /\ Len(df_filtered) > 0
  /\ ~HasText(df, "snr")
  /\ LET name == Basename(csv_files[i].path)
     IN ret' = [kind |-> "layer", name |-> name,
                markers |-> Markers(name, df_filtered)]
  /\ pc' = "cpl_return"
  /\ log' = Append(log, Event("layer_build", i))
  /\ UNCHANGED <<entry, csv_files, i, m, df_list, df, df_filtered, out, exc, exit_code,
                 saved>>

(* A direct call of create_point_layer ends with its return *)
CplReturn ==
  /\ pc = "cpl_return"
  /\ entry = "layer"
  /\ pc' = "returned"
  /\ UNCHANGED <<entry, csv_files, i, m, df_list, df, df_filtered, ret, out, exc,
                 exit_code, saved, log>>

----------------------------------------------------------------------------

Next ==
  \/ MainNoCsv \/ MainCall \/ MainPrint
  \/ MapCenterRaise \/ MapCenter \/ MergeRead \/ MergeReadRaise \/ Heat
  \/ AddControls \/ CallPointLayer \/ AddLayer \/ Save
  \/ CplRead \/ CplReadRaise \/ CplFilter \/ CplFilterRaise
  \/ CplNoData \/ CplBuildRaise \/ CplBuild \/ CplReturn

Spec == Init /\ [][Next]_vars

----------------------------------------------------------------------------
(* The vocabulary of the properties *)

InRange(c, lo, hi) == c.t = "num" /\ lo <= c.v /\ c.v <= hi

(* A valid sample: the payload holds seq <digits>, the five fields are     *)
(* present, the coordinates are in range.                                  *)
ValidSample(r) ==
  /\ StrContainsSeq(r.payload)
  /\ r.lat # NaN /\ r.long # NaN /\ r.snr # NaN /\ r.sender # NaN /\ r.elev # NaN
  /\ InRange(r.lat, -90, 90)
  /\ InRange(r.long, -180, 180)

ValidSamples(rows) == SelectSeq(rows, ValidSample)

RECURSIVE AllValidSamples(_)
AllValidSamples(files) ==
  IF Len(files) = 0 THEN <<>>
  ELSE ValidSamples(files[1].rows) \o AllValidSamples(Tail(files))

BaseNameOf(f) == f.path[Len(f.path)]

HasValidSample(f) == f.readable /\ Len(ValidSamples(f.rows)) > 0

PointLayers == SelectSeq(m.children, LAMBDA c : c.kind = "points")
HeatLayers == SelectSeq(m.children, LAMBDA c : c.kind = "heatmap")
PointLayerNames == [k \in 1..Len(PointLayers) |-> PointLayers[k].name]
ValidSourceNames ==
  LET vs == SelectSeq(csv_files, HasValidSample)
  IN [k \in 1..Len(vs) |-> BaseNameOf(vs[k])]

Pipeline == entry \in {"main", "map"}
Terminated == pc \in {"exit", "raised", "done"}
MapMade == Len(log) > 0 /\ log[1] = Event("center", 1)
Written == Len(saved) > 0

MeanEq(a, b) ==
  IF a.n = 0 \/ b.n = 0 THEN a.n = b.n ELSE a.sum * b.n = b.sum * a.n

----------------------------------------------------------------------------
(* C1: filter soundness.  The filter of create_point_layer keeps a record  *)
(* exactly when it is a valid sample, and every other record is dropped    *)
(* without an error being raised.                                          *)
C1_FilterSoundness ==
  /\ ~(pc = "raised" /\ exc.at = "filter")
  /\ (pc = "cpl_check" => df_filtered = ValidSamples(df))

(* C2: aggregation completeness.  Once the map is written, the heat layer  *)
(* holds as many samples as there are valid samples in all the sources.    *)
C2_AggregationCompleteness ==
  Written =>
    /\ Len(HeatLayers) = 1
    /\ Len(HeatLayers[1].data) = Len(AllValidSamples(csv_files))

(* C3: partial failure.  With a valid source, an unreadable source and a   *)
(* source without valid samples in the list, the run still ends with the   *)
(* map written, a point layer for the valid sources only, and the heat     *)
(* layer holding the valid sources' samples only.                          *)
PartialFailureCase ==
  /\ Pipeline
  /\ \E a, b, c \in 1..Len(csv_files) :
       /\ HasValidSample(csv_files[a])
       /\ ~csv_files[b].readable
       /\ csv_files[c].readable /\ Len(ValidSamples(csv_files[c].rows)) = 0

C3_PartialFailure ==
  (PartialFailureCase /\ Terminated) =>
    /\ exc = NoExc
    /\ Len(saved) = 1
    /\ PointLayerNames = ValidSourceNames
    /\ Len(HeatLayers) = 1
    /\ HeatLayers[1].data = HeatData(AllValidSamples(csv_files))

(* C4, as claimed: with an empty source list the run ends with the         *)
(* no-sources diagnostic and exit status 1, and nothing is written, from   *)
(* the command line and from create_map_with_layers alike.                 *)
NoSourcesProvided ==
  /\ exc = NoExc
  /\ exit_code = 1
  /\ out = <<"No CSV files found in the directory. Exiting.">>

C4_EmptyInputAsClaimed ==
  (Pipeline /\ Len(csv_files) = 0 /\ Terminated) =>
    (NoSourcesProvided /\ saved = <<>>)

(* C4, amended: with an empty source list nothing is written and no map    *)
(* is built; the command line ends with the no-sources diagnostic and exit *)
(* status 1 without calling create_map_with_layers, and                    *)
(* create_map_with_layers called with an empty list raises IndexError at   *)
(* csv_files[0].                                                           *)
C4_EmptyInput ==
  (Pipeline /\ Len(csv_files) = 0) =>
    /\ saved = <<>>
    /\ m = NoMap
    /\ (entry = "main" => pc \in {"main", "exit"})
    /\ (entry = "map" => pc \in {"map_center", "raised"})
    /\ (pc = "exit" => NoSourcesProvided)
    /\ (pc = "raised" =>
          exc = [type |-> "IndexError", at |-> "center"] /\ out = <<>>)

C4_Witness ==
  entry = "main" /\ Len(csv_files) = 0 /\ pc = "exit" /\ NoSourcesProvided

(* C5, as claimed: over a list of distinct source identifiers no two point *)
(* layers of the map carry the same name.                                  *)
DistinctPaths ==
  \A a, b \in 1..Len(csv_files) : a # b => csv_files[a].path # csv_files[b].path

DistinctBaseNames ==
  \A a, b \in 1..Len(csv_files) :
    a # b => BaseNameOf(csv_files[a]) # BaseNameOf(csv_files[b])

UniqueLayerNames ==
  \A a, b \in 1..Len(PointLayers) : a # b => PointLayers[a].name # PointLayers[b].name

C5_UniqueNamesAsClaimed == (Pipeline /\ DistinctPaths) => UniqueLayerNames

(* C5, amended: every point layer is named by the base name of a source of *)
(* the list, and over a list of sources with distinct base names no two    *)
(* point layers of the map carry the same name.                            *)
C5_UniqueNames ==
  Pipeline =>
    /\ \A a \in 1..Len(PointLayers) :
         \E k \in 1..Len(csv_files) : PointLayers[a].name = BaseNameOf(csv_files[k])
    /\ (DistinctBaseNames => UniqueLayerNames)

C5_Witness ==
  Pipeline /\ DistinctBaseNames /\ Written /\ Len(PointLayers) = 2

(* C6: colour mapping.  A marker is grey (128, 128, 128) exactly when its  *)
(* SNR is above 15 or at most -25; any other marker has the colour of the  *)
(* gradient at (snr + 21) / 33; equal SNRs give equal colours.             *)
OutOfBand(q) == q > Quarter(15) \/ q <= Quarter(-25)

C7_OrderPreservation ==
  pc = "cpl_return" /\ ret.kind = "layer" =>
    LET valid == ValidSamples(csv_files[i].rows)
        name == BaseNameOf(csv_files[i])
    IN /\ Len(valid) >= 1
       /\ Len(ret.markers) = Len(valid)
       /\ \A k \in 1..Len(valid) :
            /\ ret.markers[k].location = <<valid[k].lat, valid[k].long>>
            /\ ret.markers[k].popup =
                 <<name, valid[k].snr, valid[k].elev, valid[k].lat, valid[k].long>>

C7_Witness ==
  /\ pc = "cpl_return" /\ ret.kind = "layer"
  /\ Len(ret.markers) = 2
  /\ ret.markers[1] # ret.markers[2]

(* C8: view centre.  The centre of the map is the mean latitude and mean   *)
(* longitude of the valid samples of the first source (stated for a first  *)
(* source that has a valid sample).                                        *)
C8_ViewCentre ==
  (Pipeline /\ MapMade /\ HasValidSample(csv_files[1])) =>
    LET valid == ValidSamples(csv_files[1].rows)
    IN /\ MeanEq(m.location[1], Mean(valid, "lat"))
       /\ MeanEq(m.location[2], Mean(valid, "long"))

(* C9: zero or one point layer per source.  create_point_layer returns     *)
(* None exactly when the source has no valid sample and a layer otherwise; *)
(* the point layers of the written map are those of the sources with a     *)
(* valid sample, in the order of the list.                                 *)
C9_ZeroOrOneLayer ==
  /\ ~(pc = "raised" /\ exc.at \in {"filter", "normalize"})
  /\ (pc = "cpl_return" =>
        LET valid == ValidSamples(csv_files[i].rows)
        IN /\ (ret.kind = "None" <=> Len(valid) = 0)
           /\ (ret.kind = "layer" <=> Len(valid) > 0))
  /\ (Pipeline /\ Written => PointLayerNames = ValidSourceNames)

(* C10, as claimed: each source is loaded, validated and turned into its   *)
(* point layer before any operation on the next source, the heat           *)
(* aggregation runs after the per-source processing of all sources, and    *)
(* the map is written once, as the last step.                              *)
Ops == 1..Len(log)
IsLayerOp(e) == e[1] \in {"layer_read", "layer_filter", "layer_build", "layer_end"}
IsSourceOp(e) == IsLayerOp(e) \/ e[1] \in {"center", "merge_read"}

SavedOnceAtTheEnd ==
  /\ Len(saved) <= 1
  /\ (Written <=> \E a \in Ops : log[a][1] = "save")
  /\ \A a \in Ops :
       log[a][1] = "save" =>
         /\ \A b \in Ops : b # a => log[b][1] # "save"
         /\ \A b \in Ops : b > a => log[b][1] = "exit"
         /\ \E b \in Ops : b < a /\ log[b][1] = "heat"
         /\ \A k \in 1..Len(csv_files) :
              \E b \in Ops : b < a /\ log[b] = Event("layer_end", k)

C10_SequentialAsClaimed ==
  Pipeline =>
    /\ \A a, b \in Ops :
         (a < b /\ IsSourceOp(log[a]) /\ IsSourceOp(log[b])) => log[a][2] <= log[b][2]
    /\ \A a, b \in Ops :
         (log[a][1] = "heat" /\ IsSourceOp(log[b])) => b < a
    /\ SavedOnceAtTheEnd

(* C10, amended: every source is read for the heat layer, in list order,   *)
(* and the heat layer is handed to the map before any point layer is       *)
(* built; then each source is read again, filtered and turned into its     *)
(* point layer before the next source's point layer is begun; the map is   *)
(* written once, as the last step of create_map_with_layers, after the     *)
(* heat layer and the point layer step of every source.                    *)
C10_Sequential ==
  Pipeline =>
    /\ \A a, b \in Ops :
         (a < b /\ log[a][1] = "merge_read" /\ log[b][1] = "merge_read")
           => log[a][2] < log[b][2]
    /\ \A a, b \in Ops :
         (log[a][1] = "merge_read" /\ log[b][1] = "heat") => a < b
    /\ \A a, b \in Ops :
         (log[a][1] = "heat" /\ IsLayerOp(log[b])) => a < b
    /\ \A a, b \in Ops :
         (a < b /\ IsLayerOp(log[a]) /\ IsLayerOp(log[b])) =>
           /\ log[a][2] <= log[b][2]
           /\ (log[a][1] = "layer_end" => log[a][2] < log[b][2])
    /\ \A b \in Ops :
         log[b][1] = "heat" =>
           \A k \in 1..Len(csv_files) :
             \E a \in Ops : a < b /\ log[a] = Event("merge_read", k)
    /\ SavedOnceAtTheEnd

C10_Witness ==
  /\ entry = "map" /\ pc = "done"
  /\ Len(csv_files) = 2
  /\ Len(PointLayers) = 2

====
